---- MODULE Spec2Model ----
(***************************************************************************)
(* Model of the multiplayer chess relay server (backend/rooms.py,          *)
(* backend/socket_manager.py, backend/chess_engine.py).                    *)
(*                                                                         *)
(* Event handlers are asyncio coroutines: every `await` is a point where   *)
(* the handler may be suspended and other handlers may run.  A handler is  *)
(* a task with a program counter; one action of the model is the code of   *)
(* a handler between two awaits.  An emit is recorded when it is called.   *)
(*                                                                         *)
(* The rules library (python-chess) is abstracted by a small alternating   *)
(* game: a position is a number 0..MaxPos and the side to move, a move     *)
(* advances the position by 1 or 2.                                        *)
(***************************************************************************)
EXTENDS Integers, Sequences, FiniteSets, TLC

\* ------------------------------------------------------------------ bounds
MaxSid   == 3      \* connection ids in use at the same time
MaxTasks == 2      \* handlers that may be in progress at the same time
MaxRoomId == 2     \* distinct room ids clients ask for
MaxPos   == 3      \* length of the abstract game
MaxEvents == 3     \* join_room, player_move and disconnect events of a run

\* rooms.py: the number of players add_player and is_full compare with
RoomCapacityPlusOne == 2 + 1
RoomCapacity == 2

Sids    == 1..MaxSid
Tasks   == 1..MaxTasks
RoomIds == 1..MaxRoomId
Objs    == 1..(MaxRoomId + MaxTasks)   \* Room objects alive at the same time

\* usernames as the clients send them, before strip()
RawNames == {" ", "alice", "bob ", "Raunak", "raunak"}
NoName   == ""
NoObj    == 0

\* str.strip() on the names clients send
Strip(s) == CASE s = " " -> ""
              [] s = "bob " -> "bob"
              [] OTHER -> s

\* str.lower() on the stripped names
Lower(s) == IF s = "Raunak" THEN "raunak" ELSE s

\* ------------------------------------------------- the rules library (chess)
\* move tokens: "a" and "b" parse to moves, "0000" parses to the null move
\* (never legal), "??" does not parse (ValueError)
Tokens == {"a", "b", "0000", "??"}

Parses(tok) == tok \in {"a", "b", "0000"}
StepOf(tok) == CASE tok = "a" -> 1 [] tok = "b" -> 2 [] OTHER -> 0

\* chess.Board(): white (turn = TRUE) to move
InitBoard == [pos |-> 0, turn |-> TRUE]

\* board.legal_moves, in generation order
LegalMoves(board) ==
    SelectSeq(<<"a", "b">>, LAMBDA m : board.pos + StepOf(m) <= MaxPos)

IsLegal(board, tok) == \E i \in 1..Len(LegalMoves(board)) : LegalMoves(board)[i] = tok

\* board.push(move)
Push(board, tok) == [pos |-> board.pos + StepOf(tok), turn |-> ~board.turn]

\* board.fen(): placement and side to move
Fen(board) == <<board.pos, IF board.turn THEN "w" ELSE "b">>

IsCheckmate(board) == board.pos = MaxPos
\* a drawn position in which moves are still generated
IsInsufficientMaterial(board) == board.pos = MaxPos - 1


\* ------------------------------------------------------------ dictionaries
\* A Python dict with insertion order: a sequence of [k, v] entries
Keys(d) == {d[i].k : i \in 1..Len(d)}
HasKey(d, k) == \E i \in 1..Len(d) : d[i].k = k
IndexOf(d, k) == CHOOSE i \in 1..Len(d) : d[i].k = k
Lookup(d, k) == d[IndexOf(d, k)].v
\* d[k] = v: an existing key keeps its place
DictSet(d, k, v) ==
    IF HasKey(d, k) THEN [d EXCEPT ![IndexOf(d, k)].v = v]
    ELSE Append(d, [k |-> k, v |-> v])
\* del d[k]
DictDel(d, k) == SelectSeq(d, LAMBDA e : e.k # k)
KeyList(d) == [i \in 1..Len(d) |-> d[i].k]

\* ------------------------------------------------------------- rooms.py Room
\* Room.__init__
NewRoom == [board |-> InitBoard, players |-> <<>>, game_log |-> <<>>, move_count |-> 0]

\* Room.add_player: [ok, room]
AddPlayer(room, username, socket_id) ==
    IF Len(room.players) >= RoomCapacity THEN [ok |-> FALSE, room |-> room]
    ELSE [ok |-> TRUE,
          room |-> [room EXCEPT !.players = DictSet(room.players, username, socket_id)]]

\* Room.remove_player
RemovePlayer(room, username) ==
    IF HasKey(room.players, username)
    THEN [room EXCEPT !.players = DictDel(room.players, username)]
    ELSE room

\* Room.is_full
IsFull(room) == Len(room.players) >= RoomCapacity

\* Room.get_other_player: the first player that is not username, or NoName
GetOtherPlayer(room, username) ==
    LET others == SelectSeq(KeyList(room.players), LAMBDA p : p # username)
    IN  IF Len(others) > 0 THEN others[1] ELSE NoName

\* make_move that forgets to count the move
MakeMoveUncounted(room, move_uci) ==
    IF Parses(move_uci) /\ IsLegal(room.board, move_uci)
    THEN [ok |-> TRUE,
          room |-> [room EXCEPT !.board = Push(room.board, move_uci),
                                !.game_log = Append(room.game_log, move_uci)]]
    ELSE [ok |-> FALSE, room |-> room]

\* make_move that forgets to log the move
MakeMoveUnlogged(room, move_uci) ==
    IF Parses(move_uci) /\ IsLegal(room.board, move_uci)
    THEN [ok |-> TRUE,
          room |-> [room EXCEPT !.board = Push(room.board, move_uci),
                                !.move_count = room.move_count + 1]]
    ELSE [ok |-> FALSE, room |-> room]

\* Room.make_move: [ok, room]
MakeMove(room, move_uci) ==
    IF Parses(move_uci) /\ IsLegal(room.board, move_uci)
    THEN [ok |-> TRUE,
          room |-> [room EXCEPT !.board = Push(room.board, move_uci),
                                !.move_count = room.move_count + 1,
                                !.game_log = Append(room.game_log, move_uci)]]
    ELSE [ok |-> FALSE, room |-> room]

\* Room.export_pgn: the log replayed on a fresh board, each move validated
\* again and left out when it is not legal: the moves kept and the board
\* they lead to
ExportPgn(room) ==
    LET log == room.game_log
        replay[i \in 0..Len(log)] ==
            IF i = 0 THEN [temp_board |-> InitBoard, moves |-> <<>>]
            ELSE IF IsLegal(replay[i - 1].temp_board, log[i])
                 THEN [temp_board |-> Push(replay[i - 1].temp_board, log[i]),
                       moves |-> Append(replay[i - 1].moves, log[i])]
                 ELSE replay[i - 1]
    IN  replay[Len(log)]

\* Room.get_fen
GetFen(room) == Fen(room.board)

\* Room.get_turn
GetTurn(room) == IF room.board.turn THEN "white" ELSE "black"

\* Room.get_status
GetStatus(room) ==
    IF IsCheckmate(room.board) THEN "checkmate"
    ELSE IF IsInsufficientMaterial(room.board) THEN "insufficient_material"
    ELSE "ongoing"


\* ------------------------------------------------------------------- state
VARIABLES
    open,                \* connections whose client is connected (events may arrive)
    online,              \* connections the transport still knows (own room of each sid)
    groups,              \* transport broadcast groups: room id -> set of connections
    username_to_socket,  \* SocketManager.username_to_socket
    socket_to_username,  \* SocketManager.socket_to_username
    rooms,               \* RoomManager.rooms: dict room id -> Room object
    heap,                \* the Room objects
    initialized,         \* ChessEngine.initialized
    tasks,               \* the handlers in progress and the one that just ended
    events               \* events handled so far

vars == <<open, online, groups, username_to_socket, socket_to_username,
          rooms, heap, initialized, tasks, events>>

\* a handler slot that is not running: nothing, or what the last handler left
IdleTask == [pc |-> "idle", kind |-> "", sid |-> 0, room_id |-> 0, username |-> NoName,
             room |-> NoObj, success |-> "unset", out |-> <<>>]

Running(t) == tasks[t].pc \notin {"idle", "done", "crashed"}
IsRunning(task) == task.pc \notin {"idle", "done", "crashed"}

\* the Room objects something still refers to
Referenced(o, reg, ts) ==
    \/ \E i \in 1..Len(reg) : reg[i].v = o
    \/ \E t \in Tasks : IsRunning(ts[t]) /\ ts[t].room = o

\* unreferenced objects are collected: they read as a fresh Room
Collect(h, reg, ts) == [o \in Objs |-> IF Referenced(o, reg, ts) THEN h[o] ELSE NewRoom]

FreeObj == CHOOSE o \in Objs :
              /\ ~Referenced(o, rooms, tasks)
              /\ \A q \in Objs : ~Referenced(q, rooms, tasks) => o <= q

\* a connection id nothing remembers may be handed out again
SidForgotten(s) ==
    /\ s \notin online
    /\ \A r \in RoomIds : s \notin groups[r]
    /\ ~HasKey(socket_to_username, s)
    /\ \A i \in 1..Len(username_to_socket) : username_to_socket[i].v # s
    /\ \A o \in Objs : \A i \in 1..Len(heap[o].players) : heap[o].players[i].v # s
    /\ \A t \in Tasks : tasks[t].sid # s

\* the connection has sent an event that left a trace
SidUsed(s) ==
    \/ HasKey(socket_to_username, s)
    \/ \E i \in 1..Len(username_to_socket) : username_to_socket[i].v = s
    \/ \E o \in Objs : \E i \in 1..Len(heap[o].players) : heap[o].players[i].v = s
    \/ \E t \in Tasks : tasks[t].sid = s

\* no handler has just ended: an ended handler returns before anything else runs
NoneEnded == \A t \in Tasks : tasks[t].pc \notin {"done", "crashed"}

\* an event arrives: the slot its handler runs in
FreeTask(t) == /\ NoneEnded
               /\ events < MaxEvents
               /\ tasks[t].pc = "idle"
               /\ \A u \in Tasks : tasks[u].pc = "idle" => t <= u

\* a suspended handler is resumed at pc
Resumes(t, pcs) == NoneEnded /\ tasks[t].pc \in pcs

\* ------------------------------------------------------------------ events
Ev0 == [ev |-> "", to |-> 0, room |-> 0, rcpt |-> {}, fen |-> <<>>, turn |-> "",
        status |-> "", players |-> <<>>, room_id |-> 0, move_uci |-> "",
        username |-> NoName, message |-> ""]

\* the error sent to every connection instead of the requester
ErrorEvToAll(sid, m) ==
    [Ev0 EXCEPT !.ev = "error", !.to = sid, !.rcpt = online, !.message = m]

\* sio.emit('error', {'message': m}, to=sid)
ErrorEv(sid, m) ==
    [Ev0 EXCEPT !.ev = "error", !.to = sid, !.rcpt = {sid} \cap online, !.message = m]

\* sio.emit('game_state', {fen, turn, status, players, room_id}, to=sid)
JoinStateEv(sid, room, room_id) ==
    [Ev0 EXCEPT !.ev = "game_state", !.to = sid, !.rcpt = {sid} \cap online,
                !.fen = GetFen(room), !.turn = GetTurn(room), !.status = GetStatus(room),
                !.players = KeyList(room.players), !.room_id = room_id]

\* sio.emit('player_joined', {username, players}, to=other_sid)
PlayerJoinedEv(other_sid, username, room) ==
    [Ev0 EXCEPT !.ev = "player_joined", !.to = other_sid, !.rcpt = {other_sid} \cap online,
                !.username = username, !.players = KeyList(room.players)]

\* sio.emit('opponent_disconnected', to=other_sid)
OpponentDisconnectedEv(other_sid) ==
    [Ev0 EXCEPT !.ev = "opponent_disconnected", !.to = other_sid,
                !.rcpt = {other_sid} \cap online]

\* sio.emit('move_update', {fen, move_uci, username}, room=room_id)
MoveUpdateEv(room_id, room, move_uci, username) ==
    [Ev0 EXCEPT !.ev = "move_update", !.room = room_id, !.rcpt = groups[room_id],
                !.fen = GetFen(room), !.move_uci = move_uci, !.username = username]

\* sio.emit('game_state', {fen, turn, status}, room=room_id)
GameStateEv(room_id, room) ==
    [Ev0 EXCEPT !.ev = "game_state", !.room = room_id, !.rcpt = groups[room_id],
                !.fen = GetFen(room), !.turn = GetTurn(room), !.status = GetStatus(room)]

\* -------------------------------------------------------------------- Init
Init ==
    /\ open = {}
    /\ online = {}
    /\ groups = [r \in RoomIds |-> {}]
    /\ username_to_socket = <<>>
    /\ socket_to_username = <<>>
    /\ rooms = <<>>
    /\ heap = [o \in Objs |-> NewRoom]
    /\ initialized = FALSE          \* ChessEngine.__init__; get_best_move starts it
    /\ tasks = [t \in Tasks |-> IdleTask]
    /\ events = 0

\* on_connect: the transport registers the connection
OnConnect(s) ==
    /\ NoneEnded
    /\ SidForgotten(s)
    /\ open' = open \cup {s}
    /\ online' = online \cup {s}
    /\ UNCHANGED <<groups, username_to_socket, socket_to_username, rooms, heap,
                   initialized, tasks, events>>


\* ------------------------------------------------------ rooms.py RoomManager
\* RoomManager.get_room: the Room object, or NoObj
GetRoom(reg, room_id) == IF HasKey(reg, room_id) THEN Lookup(reg, room_id) ELSE NoObj

\* get_or_create_room without the membership test: a Room per call
GetOrCreateRoomAlways(reg, h, room_id) ==
    [reg |-> DictSet(reg, room_id, FreeObj), room |-> FreeObj,
     h |-> [h EXCEPT ![FreeObj] = NewRoom]]

\* RoomManager.get_or_create_room: [reg, room, h]
GetOrCreateRoom(reg, h, room_id) ==
    IF ~HasKey(reg, room_id)
    THEN [reg |-> DictSet(reg, room_id, FreeObj), room |-> FreeObj,
          h |-> [h EXCEPT ![FreeObj] = NewRoom]]
    ELSE [reg |-> reg, room |-> Lookup(reg, room_id), h |-> h]

\* RoomManager.remove_room
RemoveRoom(reg, room_id) == IF HasKey(reg, room_id) THEN DictDel(reg, room_id) ELSE reg

\* ------------------------------------------------------------ task updates
\* the handler in slot t goes on as newtask; registry and objects as given
Update(t, newtask, reg, h) ==
    /\ events' = IF tasks[t].pc = "idle" THEN events + 1 ELSE events
    /\ tasks' = [tasks EXCEPT ![t] = newtask]
    /\ rooms' = reg
    /\ heap' = Collect(h, reg, [tasks EXCEPT ![t] = newtask])

\* the handler returns (or raises)
Ended(task, how) == [task EXCEPT !.pc = how]

Emit(task, e) == [task EXCEPT !.out = Append(task.out, e)]

\* --------------------------------------------- socket_manager.py on_join_room
\* the check of line 73 left out
RoomIsFullForNobody(room, username) == FALSE

\* line 73: the room is full and the name is not one of its players
RoomIsFullFor(room, username) == IsFull(room) /\ ~HasKey(room.players, username)

\* lines 58-94: up to the first await that lets other handlers run (entering
\* the broadcast group is bookkeeping of the in-memory transport, no suspension)
JoinStart(t, s, raw, room_id) ==
    LET username == Strip(raw)
        task == [IdleTask EXCEPT !.kind = "join", !.sid = s, !.room_id = room_id,
                                 !.username = username]
    IN
    /\ FreeTask(t)
    /\ s \in open
    /\ UNCHANGED <<open, online, initialized>>
    /\ IF username = NoName
       THEN /\ Update(t, Ended(Emit(task, ErrorEv(s, "Username is required")), "done"),
                      rooms, heap)
            /\ UNCHANGED <<groups, username_to_socket, socket_to_username>>
       ELSE
         LET goc == GetOrCreateRoom(rooms, heap, room_id)
             room == goc.h[goc.room]
             add == AddPlayer(room, username, s)
         IN
         /\ username_to_socket' = DictSet(username_to_socket, username, s)
         /\ socket_to_username' = DictSet(socket_to_username, s, username)
         /\ IF RoomIsFullFor(room, username)
            THEN /\ Update(t, Ended(Emit(task, ErrorEv(s, "Room is full")), "done"),
                           goc.reg, goc.h)
                 /\ UNCHANGED groups
            ELSE IF ~HasKey(room.players, username) /\ ~add.ok
            THEN /\ Update(t, Ended(Emit(task, ErrorEv(s, "Failed to join room")), "done"),
                           goc.reg, goc.h)
                 /\ UNCHANGED groups
            ELSE LET joined == IF HasKey(room.players, username) THEN room ELSE add.room
                 IN
                 \* sio.enter_room(sid, room_id), then the snapshot for the requester
                 /\ groups' = [groups EXCEPT ![room_id] = @ \cup {s}]
                 /\ Update(t, [Emit(task, JoinStateEv(s, joined, room_id))
                                 EXCEPT !.pc = "j_state", !.room = goc.room,
                                        !.success = IF HasKey(room.players, username)
                                                    THEN "unset" ELSE "true"],
                           goc.reg, [goc.h EXCEPT ![goc.room] = joined])

\* the notification tied to the name having been added just now
NotifyDueNever(room) == FALSE

\* line 97: the other player is told when the room is full
NotifyDue(room) == IsFull(room)

\* lines 97-105: tell the other player when the room is full
JoinNotify(t) ==
    LET task == tasks[t]
        room == heap[task.room]
        other_player == GetOtherPlayer(room, task.username)
    IN
    /\ Resumes(t, {"j_state"})
    /\ UNCHANGED <<open, online, groups, username_to_socket, socket_to_username,
                   initialized>>
    /\ IF ~NotifyDue(room)
       THEN Update(t, Ended(task, "done"), rooms, heap)
       ELSE IF other_player # NoName
       THEN Update(t, [Emit(task, PlayerJoinedEv(Lookup(room.players, other_player),
                                                 task.username, room))
                         EXCEPT !.pc = "j_joined"], rooms, heap)
       ELSE Update(t, [task EXCEPT !.pc = "j_joined"], rooms, heap)


\* ------------------------------------------- chess_engine.py get_best_move
\* What a call can do.  Not initialized: initialize() raises (the handler
\* fails) or starts the engine.  With the engine: a legal move, or no move
\* when the position has none.
OracleOutcomes(board) ==
    LET legal == LegalMoves(board)
        plays == IF Len(legal) = 0
                 THEN {[raises |-> FALSE, move |-> ""]}
                 ELSE {[raises |-> FALSE, move |-> legal[i]] : i \in 1..Len(legal)}
    IN  IF initialized THEN plays ELSE plays \cup {[raises |-> TRUE, move |-> ""]}

\* ------------------------------------ socket_manager.py auto_play_for_raunak
\* lines 125-128: the first player whose name is the reserved one, or NoName
RaunakUsername(room) ==
    LET rs == SelectSeq(KeyList(room.players), LAMBDA p : Lower(p) = "raunak")
    IN  IF Len(rs) > 0 THEN rs[1] ELSE NoName

\* the sides the wrong way round: the first player taken for black
IsPlayersTurnSwapped(room, username) ==
    (IndexOf(room.players, username) = 2) = room.board.turn

\* lines 191-194 and 134-137: the player's side by join order is the side to move
IsPlayersTurn(room, username) ==
    (IndexOf(room.players, username) = 1) = room.board.turn

\* the check without the test of whose turn it is
AutoPlayDueAnyTurn(room) ==
    /\ IsFull(room)
    /\ Len(room.players) >= 2
    /\ RaunakUsername(room) # NoName

\* lines 114-137: the check finds a move to play for Raunak
AutoPlayDue(room) ==
    /\ IsFull(room)
    /\ Len(room.players) >= 2
    /\ RaunakUsername(room) # NoName
    /\ IsPlayersTurn(room, RaunakUsername(room))

\* lines 112-149: from the call to the first await, or to the return
AutoPlay(t) ==
    LET task == tasks[t]
        room == heap[task.room]
    IN
    /\ Resumes(t, {"j_joined", "m_gs", "a_gs"})
    /\ UNCHANGED <<open, online, groups, username_to_socket, socket_to_username>>
    /\ IF ~AutoPlayDue(room)
       THEN /\ Update(t, Ended(task, "done"), rooms, heap)
            /\ UNCHANGED initialized
       ELSE \E o \in OracleOutcomes(room.board) :
              LET mm == MakeMove(room, o.move)
                  raunak_username == RaunakUsername(room)
              IN
              IF o.raises
              THEN /\ Update(t, Ended(task, "crashed"), rooms, heap)
                   /\ UNCHANGED initialized
              ELSE /\ initialized' = TRUE
                   /\ IF o.move # "" /\ mm.ok
                      THEN Update(t, [Emit(task, MoveUpdateEv(task.room_id, mm.room,
                                                              o.move, raunak_username))
                                        EXCEPT !.pc = "a_mu"],
                                  rooms, [heap EXCEPT ![task.room] = mm.room])
                      ELSE Update(t, Ended(task, "done"), rooms, heap)

\* lines 152-156: the game state after the automatic move
AutoPlaySendState(t) ==
    LET task == tasks[t]
        room == heap[task.room]
    IN
    /\ Resumes(t, {"a_mu"})
    /\ Update(t, [Emit(task, GameStateEv(task.room_id, room)) EXCEPT !.pc = "a_gs"],
              rooms, heap)
    /\ UNCHANGED <<open, online, groups, username_to_socket, socket_to_username,
                   initialized>>


\* -------------------------------------------- socket_manager.py on_player_move
\* what a client may put in the fen field: nothing, text that is no position,
\* or the canonical form of a position
NoFen == <<>>
BadFen == <<-1, "?">>
FenHints == {NoFen, BadFen} \cup {Fen([pos |-> p, turn |-> w]) : p \in 0..MaxPos, w \in BOOLEAN}
MoveInputs == {[move_uci |-> "", fen |-> f] : f \in FenHints}
              \cup {[move_uci |-> m, fen |-> f] : m \in Tokens, f \in {NoFen, BadFen}}

\* the reserved name in lower case only
IsRaunakExact(username) == username = "raunak"

\* line 199: the reserved name, whatever its case
IsRaunak(username) == Lower(username) = "raunak"

\* lines 231-247: the first legal move that leads to the position of the hint
MoveFromFen(board, client_fen) ==
    LET hits == SelectSeq(LegalMoves(board), LAMBDA m : Fen(Push(board, m)) = client_fen)
    IN  IF client_fen = NoFen \/ client_fen = BadFen \/ Len(hits) = 0 THEN "" ELSE hits[1]

\* lines 228-247: the move token of a normal player's event
ResolveMove(board, data) ==
    IF data.move_uci # "" THEN data.move_uci ELSE MoveFromFen(board, data.fen)

\* lines 165-196: the message the event is refused with before any move is
\* looked at, or "" when the sender may move
MoveRefusal(s, room_id) ==
    LET username == Lookup(socket_to_username, s)
        room == heap[GetRoom(rooms, room_id)]
    IN  IF ~HasKey(socket_to_username, s) THEN "Not authenticated"
        ELSE IF GetRoom(rooms, room_id) = NoObj THEN "Room not found"
        ELSE IF ~HasKey(room.players, username) THEN "Not in this room"
        ELSE IF Len(room.players) < 2 THEN "Waiting for opponent"
        ELSE IF ~IsPlayersTurn(room, username) THEN "Not your turn"
        ELSE ""

\* lines 163-260: from the event to the first await after a move, or to the
\* error that ends the handler
MoveStart(t, s, room_id, data) ==
    LET refusal == MoveRefusal(s, room_id)
        username == IF HasKey(socket_to_username, s) THEN Lookup(socket_to_username, s)
                    ELSE NoName
        task == [IdleTask EXCEPT !.kind = "move", !.sid = s, !.room_id = room_id,
                                 !.username = username]
        obj == GetRoom(rooms, room_id)
        Refuse(m) == Update(t, Ended(Emit(task, ErrorEv(s, m)), "done"), rooms, heap)
    IN
    /\ FreeTask(t)
    /\ s \in open
    /\ UNCHANGED <<open, online, groups, username_to_socket, socket_to_username>>
    /\ IF refusal # ""
       THEN Refuse(refusal) /\ UNCHANGED initialized
       ELSE
         LET room == heap[obj] IN
         IF IsRaunak(username)
         THEN \E o \in OracleOutcomes(room.board) :
                LET mm == MakeMove(room, o.move) IN
                IF o.raises
                THEN /\ Update(t, Ended(task, "crashed"), rooms, heap)
                     /\ UNCHANGED initialized
                ELSE /\ initialized' = TRUE
                     /\ IF o.move = "" THEN Refuse("AI could not generate move")
                        ELSE IF ~mm.ok THEN Refuse("Invalid AI move")
                        ELSE Update(t, [Emit(task, MoveUpdateEv(room_id, mm.room, o.move,
                                                                username))
                                          EXCEPT !.pc = "r_mu", !.room = obj],
                                    rooms, [heap EXCEPT ![obj] = mm.room])
         ELSE
           LET move_uci == ResolveMove(room.board, data)
               mm == MakeMove(room, move_uci)
           IN
           /\ UNCHANGED initialized
           /\ IF move_uci = "" THEN Refuse("Move required")
              ELSE IF ~mm.ok THEN Refuse("Invalid move")
              ELSE Update(t, [Emit(task, MoveUpdateEv(room_id, mm.room, move_uci, username))
                                EXCEPT !.pc = "m_mu", !.room = obj],
                          rooms, [heap EXCEPT ![obj] = mm.room])

\* lines 214-220: the game state after Raunak's move; the handler returns
MoveRaunakSendState(t) ==
    LET task == tasks[t]
        room == heap[task.room]
    IN
    /\ Resumes(t, {"r_mu"})
    /\ Update(t, Ended(Emit(task, GameStateEv(task.room_id, room)), "done"), rooms, heap)
    /\ UNCHANGED <<open, online, groups, username_to_socket, socket_to_username,
                   initialized>>

\* lines 263-267: the game state after a normal player's move
MoveSendState(t) ==
    LET task == tasks[t]
        room == heap[task.room]
    IN
    /\ Resumes(t, {"m_mu"})
    /\ Update(t, [Emit(task, GameStateEv(task.room_id, room)) EXCEPT !.pc = "m_gs"],
              rooms, heap)
    /\ UNCHANGED <<open, online, groups, username_to_socket, socket_to_username,
                   initialized>>

\* ---------------------------------------------- socket_manager.py on_disconnect
\* line 36-37: the first room, in the registry's order, that lists the name
FirstRoomOf(reg, h, username) ==
    LET hits == SelectSeq(reg, LAMBDA e : HasKey(h[e.v].players, username))
    IN  IF Len(hits) > 0 THEN hits[1] ELSE [k |-> 0, v |-> NoObj]

\* line 47-48: an empty room leaves the registry
CleanUpEmpty(reg, room, room_id) ==
    IF Len(room.players) = 0 THEN RemoveRoom(reg, room_id) ELSE reg

\* lines 47-54: clean up the room found (obj, or NoObj when none was), drop
\* the two directory entries; the transport then forgets the connection
DisconnectEnd(t, task, obj, h) ==
    LET reg == IF obj = NoObj THEN rooms ELSE CleanUpEmpty(rooms, h[obj], task.room_id)
    IN
    IF ~HasKey(username_to_socket, task.username)
    THEN \* del self.username_to_socket[username] raises KeyError
         /\ Update(t, Ended(task, "crashed"), reg, h)
         /\ UNCHANGED <<username_to_socket, socket_to_username, online, groups>>
    ELSE IF ~HasKey(socket_to_username, task.sid)
    THEN \* del self.socket_to_username[sid] raises KeyError
         /\ Update(t, Ended(task, "crashed"), reg, h)
         /\ username_to_socket' = DictDel(username_to_socket, task.username)
         /\ UNCHANGED <<socket_to_username, online, groups>>
    ELSE /\ Update(t, Ended(task, "done"), reg, h)
         /\ username_to_socket' = DictDel(username_to_socket, task.username)
         /\ socket_to_username' = DictDel(socket_to_username, task.sid)
         /\ online' = online \ {task.sid}
         /\ groups' = [r \in RoomIds |-> groups[r] \ {task.sid}]

\* lines 31-45: from the event to the notification of the other player, or to
\* the end when there is none
DisconnectStart(t, s) ==
    LET task0 == [IdleTask EXCEPT !.kind = "disconnect", !.sid = s]
    IN
    /\ FreeTask(t)
    /\ s \in open
    /\ open' = open \ {s}
    /\ UNCHANGED initialized
    /\ IF ~HasKey(socket_to_username, s)
       THEN /\ Update(t, Ended(task0, "done"), rooms, heap)
            /\ online' = online \ {s}
            /\ groups' = [r \in RoomIds |-> groups[r] \ {s}]
            /\ UNCHANGED <<username_to_socket, socket_to_username>>
       ELSE
         LET username == Lookup(socket_to_username, s)
             hit == FirstRoomOf(rooms, heap, username)
             task == [task0 EXCEPT !.username = username, !.room_id = hit.k]
             room == RemovePlayer(heap[hit.v], username)
             h == [heap EXCEPT ![hit.v] = room]
             other_player == GetOtherPlayer(room, username)
         IN
         IF hit.v = NoObj THEN DisconnectEnd(t, task, NoObj, heap)
         ELSE IF other_player # NoName
         THEN /\ Update(t, [Emit(task, OpponentDisconnectedEv(Lookup(room.players,
                                                                     other_player)))
                             EXCEPT !.pc = "d_notified", !.room = hit.v], rooms, h)
              /\ UNCHANGED <<username_to_socket, socket_to_username, online, groups>>
         ELSE DisconnectEnd(t, task, hit.v, h)

\* lines 46-54: after the notification
DisconnectFinish(t) ==
    /\ Resumes(t, {"d_notified"})
    /\ DisconnectEnd(t, tasks[t], tasks[t].room, heap)
    /\ UNCHANGED <<open, initialized>>

\* the handler that ended returns to the event loop
HandlerReturn(t) ==
    /\ tasks[t].pc \in {"done", "crashed"}
    /\ tasks' = [u \in Tasks |-> IF u < t THEN tasks[u]
                                 ELSE IF u + 1 \in Tasks THEN tasks[u + 1]
                                 ELSE IdleTask]
    /\ UNCHANGED <<open, online, groups, username_to_socket, socket_to_username,
                   rooms, heap, initialized, events>>

\* ------------------------------------------------------------- environment
\* Connection ids, room ids and the names of one kind are interchangeable
\* until the state holds a trace of them: of the untraced ones the clients
\* use the first, and one connection at a time is connected but silent.
RoomIdTraced(r) ==
    \/ HasKey(rooms, r)
    \/ groups[r] # {}
    \/ \E t \in Tasks : tasks[t].room_id = r

NameTraced(n) ==
    \/ HasKey(username_to_socket, n)
    \/ \E i \in 1..Len(socket_to_username) : socket_to_username[i].v = n
    \/ \E o \in Objs : HasKey(heap[o].players, n)
    \/ \E t \in Tasks :
          \/ tasks[t].username = n
          \/ \E i \in 1..Len(tasks[t].out) :
                \/ tasks[t].out[i].username = n
                \/ \E j \in 1..Len(tasks[t].out[i].players) : tasks[t].out[i].players[j] = n

Twin(n) == CASE n = "alice" -> "bob" [] n = "bob" -> "alice"
             [] n = "Raunak" -> "raunak" [] n = "raunak" -> "Raunak" [] OTHER -> n

FirstSid(s) ==
    /\ \A q \in Sids : SidForgotten(q) => s <= q
    /\ \A q \in open : SidUsed(q)

FirstRoomId(r) == RoomIdTraced(r) \/ \A q \in RoomIds : ~RoomIdTraced(q) => r <= q

FirstName(n) == n \in {NoName, "alice", "Raunak"} \/ NameTraced(n) \/ NameTraced(Twin(n))

\* ------------------------------------------------------------ specification
Next ==
    \/ \E s \in Sids : NoneEnded /\ FirstSid(s) /\ OnConnect(s)
    \/ \E t \in Tasks : FreeTask(t) /\ \E s \in open :
          \E r \in RoomIds : FirstRoomId(r) /\ \E raw \in RawNames :
             FirstName(Strip(raw)) /\ JoinStart(t, s, raw, r)
    \/ \E t \in Tasks : JoinNotify(t)
    \/ \E t \in Tasks : AutoPlay(t)
    \/ \E t \in Tasks : AutoPlaySendState(t)
    \/ \E t \in Tasks : FreeTask(t) /\ \E s \in open :
          \E r \in RoomIds : FirstRoomId(r) /\ \E d \in MoveInputs :
             MoveStart(t, s, r, d)
    \/ \E t \in Tasks : MoveRaunakSendState(t)
    \/ \E t \in Tasks : MoveSendState(t)
    \/ \E t \in Tasks : FreeTask(t) /\ \E s \in open : DisconnectStart(t, s)
    \/ \E t \in Tasks : DisconnectFinish(t)
    \/ \E t \in Tasks : HandlerReturn(t)

Spec == Init /\ [][Next]_vars

\* a handler that can go on does so: the event loop resumes every coroutine
\* whose await has completed, and no await of the handlers blocks for ever
HandlerStep ==
    \E t \in Tasks :
        \/ JoinNotify(t) \/ AutoPlay(t) \/ AutoPlaySendState(t)
        \/ MoveRaunakSendState(t) \/ MoveSendState(t)
        \/ DisconnectFinish(t) \/ HandlerReturn(t)

FairSpec == Spec /\ WF_vars(HandlerStep)

\* ------------------------------------------------- a Room object on its own
\* The methods of Room called directly on a Room in any state a room can be
\* in: up to two players, names as on_join_room stores them (stripped, not
\* empty), any connection handles.
Names == {Strip(raw) : raw \in RawNames} \ {NoName}

PlayersInputs ==
    {<<>>}
    \cup {<<[k |-> n, v |-> s]>> : n \in Names, s \in Sids}
    \cup {ps \in {<<[k |-> n, v |-> s], [k |-> m, v |-> q]>> :
                      n \in Names, m \in Names, s \in Sids, q \in Sids} :
             ps[1].k # ps[2].k}

InitRoom ==
    /\ open = {}
    /\ online = {}
    /\ groups = [r \in RoomIds |-> {}]
    /\ username_to_socket = <<>>
    /\ socket_to_username = <<>>
    /\ rooms = <<[k |-> 1, v |-> 1]>>
    /\ \E ps \in PlayersInputs :
          heap = [o \in Objs |-> IF o = 1 THEN [NewRoom EXCEPT !.players = ps] ELSE NewRoom]
    /\ initialized = FALSE
    /\ tasks = [t \in Tasks |-> IdleTask]
    /\ events = 0

\* room.add_player(username, socket_id) on the Room; slot 1 records the call
\* and what it returned
RoomAddPlayer(username, socket_id) ==
    LET add == AddPlayer(heap[1], username, socket_id) IN
    /\ heap' = [heap EXCEPT ![1] = add.room]
    /\ tasks' = [tasks EXCEPT ![1] = [IdleTask EXCEPT !.kind = "add_player",
                                                      !.username = username,
                                                      !.sid = socket_id,
                                                      !.success = IF add.ok THEN "true"
                                                                  ELSE "false"]]
    /\ UNCHANGED <<open, online, groups, username_to_socket, socket_to_username,
                   rooms, initialized, events>>

NextRoom == \E username \in Names, socket_id \in Sids : RoomAddPlayer(username, socket_id)

SpecRoom == InitRoom /\ [][NextRoom]_vars


\* ================================================================== claims
\* the step in which the handler of an event of this kind starts in slot t
Started(t, kind) == tasks[t].pc = "idle" /\ tasks'[t].pc # "idle" /\ tasks'[t].kind = kind

\* the game fields of a Room object
Game(room) == <<room.board, room.game_log, room.move_count>>

\* the Room objects the registry holds
Registered == {rooms[i].v : i \in 1..Len(rooms)}

\* ---------------------------------------------------------------------- C1
\* C1: in every reachable state every room held by the RoomManager has at
\* most 2 entries in its players mapping.
C1_AtMostTwoPlayers == \A o \in Registered : Len(heap[o].players) <= 2

\* a third name was just refused by a room that holds two players
C1_Witness ==
    \E t \in Tasks, o \in Registered :
        /\ tasks[t].pc = "done" /\ tasks[t].kind = "join"
        /\ Len(tasks[t].out) = 1 /\ tasks[t].out[1].message = "Room is full"
        /\ GetRoom(rooms, tasks[t].room_id) = o
        /\ Len(heap[o].players) = 2

\* ---------------------------------------------------------------------- C2
\* C2: a player_move event changes a room's board only if the sending
\* connection is bound to a name that is a participant of that room, the room
\* has 2 participants and the sender's side by join order (first = white,
\* second = black) is the side to move; when the sides do not match the
\* sender alone receives error 'Not your turn' and board, move log and move
\* count are unchanged.
C2_SenderIsParticipant(s, o) ==
    /\ HasKey(socket_to_username, s)
    /\ o # NoObj
    /\ HasKey(heap[o].players, Lookup(socket_to_username, s))
    /\ Len(heap[o].players) = 2

C2_SenderSide(s, o) ==
    IF heap[o].players[1].k = Lookup(socket_to_username, s) THEN "white" ELSE "black"

C2_MoveStep(t) ==
    LET s == tasks'[t].sid
        o == GetRoom(rooms, tasks'[t].room_id)
    IN
    /\ (\E q \in Objs : Game(heap'[q]) # Game(heap[q])) =>
          /\ C2_SenderIsParticipant(s, o)
          /\ C2_SenderSide(s, o) = GetTurn(heap[o])
          /\ \A q \in Objs \ {o} : Game(heap'[q]) = Game(heap[q])
    /\ (C2_SenderIsParticipant(s, o) /\ C2_SenderSide(s, o) # GetTurn(heap[o])) =>
          /\ tasks'[t].pc = "done"
          /\ Len(tasks'[t].out) = 1
          /\ tasks'[t].out[1].ev = "error"
          /\ tasks'[t].out[1].message = "Not your turn"
          /\ tasks'[t].out[1].to = s /\ tasks'[t].out[1].rcpt \subseteq {s}
          /\ \A q \in Objs : Game(heap'[q]) = Game(heap[q])

C2_TurnEnforced == [][\A t \in Tasks : Started(t, "move") => C2_MoveStep(t)]_vars

\* a participant of a full room was just refused because it is not their turn
C2_Witness ==
    \E t \in Tasks :
        /\ tasks[t].pc = "done" /\ tasks[t].kind = "move"
        /\ tasks[t].out[1].message = "Not your turn"
        /\ C2_SenderIsParticipant(tasks[t].sid, GetRoom(rooms, tasks[t].room_id))


\* ---------------------------------------------------------------------- C3
\* C3: when Room.make_move returns true, move_count has increased by exactly
\* 1 and game_log has grown by exactly 1 entry, the token; when it returns
\* false (unparsable or illegal token) board, move_count and game_log are
\* unchanged.  The handlers emit move_update exactly when it returned true
\* and 'Invalid move' / 'Invalid AI move' when it returned false.
C3_Accepted(o, tok) ==
    /\ heap'[o].move_count = heap[o].move_count + 1
    /\ heap'[o].game_log = Append(heap[o].game_log, tok)
    /\ Len(heap'[o].game_log) = Len(heap[o].game_log) + 1
    /\ heap'[o].board = Push(heap[o].board, tok)
    /\ Parses(tok) /\ IsLegal(heap[o].board, tok)

C3_Step(t) ==
    LET out == tasks'[t].out
        e == out[Len(out)]
        before == IF tasks[t].pc = "idle" THEN 0 ELSE Len(tasks[t].out)
        o == IF tasks[t].pc = "idle" THEN GetRoom(rooms, tasks'[t].room_id) ELSE tasks[t].room
    IN
    \* the step of slot t emitted something
    (tasks'[t].pc # "idle" /\ Len(out) = before + 1) =>
        /\ e.ev = "move_update" =>
              /\ C3_Accepted(o, e.move_uci)
              /\ \A q \in Objs \ {o} : Game(heap'[q]) = Game(heap[q])
        /\ (e.ev = "error" /\ e.message \in {"Invalid move", "Invalid AI move"}) =>
              \A q \in Objs : Game(heap'[q]) = Game(heap[q])

\* the game fields of a Room object change by an accepted move only
C3_OnlyMoves(o) ==
    (Game(heap'[o]) # Game(heap[o]) /\ Referenced(o, rooms', tasks')) =>
        \E tok \in Tokens : C3_Accepted(o, tok)

C3_MakeMoveFrame ==
    [][ /\ NoneEnded => \A t \in Tasks : C3_Step(t)
        /\ \A o \in Objs : C3_OnlyMoves(o) ]_vars

\* an illegal token was just refused in a game in which a move was made
C3_Witness ==
    \E t \in Tasks :
        /\ tasks[t].pc = "done" /\ tasks[t].kind = "move"
        /\ tasks[t].out[1].message = "Invalid move"
        /\ heap[GetRoom(rooms, tasks[t].room_id)].move_count = 1
        /\ Len(heap[GetRoom(rooms, tasks[t].room_id)].game_log) = 1

\* ---------------------------------------------------------------------- C4
\* C4: when a join_room event names a room that already has 2 participants
\* and the requested name is not one of them, the requester gets error 'Room
\* is full', is not added, the room's participants (names and connection
\* handles), board and move log are unchanged, and no game_state,
\* player_joined or move_update is emitted to anyone.
C4_JoinStep(t) ==
    LET s == tasks'[t].sid
        o == GetRoom(rooms, tasks'[t].room_id)
    IN
    (o # NoObj /\ Len(heap[o].players) = 2 /\ tasks'[t].username # NoName
       /\ ~HasKey(heap[o].players, tasks'[t].username)) =>
        /\ tasks'[t].pc = "done"
        /\ Len(tasks'[t].out) = 1
        /\ tasks'[t].out[1].ev = "error"
        /\ tasks'[t].out[1].message = "Room is full"
        /\ tasks'[t].out[1].to = s
        /\ heap' = heap
        /\ rooms' = rooms
        /\ \A u \in Tasks \ {t} : tasks'[u] = tasks[u]

C4_RoomFullRefused == [][\A t \in Tasks : Started(t, "join") => C4_JoinStep(t)]_vars

\* a third name was just refused by a full room, whose players are untouched
C4_Witness ==
    \E t \in Tasks :
        /\ tasks[t].pc = "done" /\ tasks[t].kind = "join"
        /\ Len(tasks[t].out) = 1 /\ tasks[t].out[1].message = "Room is full"
        /\ GetRoom(rooms, tasks[t].room_id) # NoObj
        /\ ~HasKey(heap[GetRoom(rooms, tasks[t].room_id)].players, tasks[t].username)


\* ---------------------------------------------------------------------- C5
\* no handler is in progress
Quiescent == \A t \in Tasks : ~Running(t)

\* the connection is gone and its disconnect handler has ended
Disconnected(s) ==
    /\ s \notin open
    /\ \A t \in Tasks : ~(tasks[t].kind = "disconnect" /\ tasks[t].sid = s /\ Running(t))

\* a room is out of the registry as soon as its participant count is 0
C5_NoEmptyRoom == \A o \in Registered : Len(heap[o].players) > 0

\* C5: whenever no event handler is in progress, no room in the registry has
\* zero participants: a room is removed from the registry as soon as its
\* participant count returns to 0, so after the only participant of a room
\* has disconnected the registry no longer holds that room.
C5_EmptyRoomsRemoved ==
    /\ Quiescent => C5_NoEmptyRoom
    /\ \A o \in Registered :
          Len(heap[o].players) = 1 => ~Disconnected(heap[o].players[1].v)

\* ---------------------------------------------------------------------- C6
Bound(n, s) == HasKey(username_to_socket, n) /\ Lookup(username_to_socket, n) = s
BoundBack(s, n) == HasKey(socket_to_username, s) /\ Lookup(socket_to_username, s) = n

\* C6: in every reachable state the two directory mappings are mutually
\* inverse: username_to_socket[n] = s if and only if socket_to_username[s] = n.
C6_DirectoryInverse ==
    \A n \in {Strip(r) : r \in RawNames}, s \in Sids : Bound(n, s) <=> BoundBack(s, n)

\* ---------------------------------------------------------------------- C7
\* C7: in every reachable state, including those in which a disconnect
\* handler is suspended at its notification, every name listed in a room's
\* participants is bound in the identity directory, and after a connection's
\* disconnect handler has completed no room lists a participant through that
\* connection.
C7_ParticipantsBound ==
    \A o \in Registered : \A i \in 1..Len(heap[o].players) :
        /\ HasKey(username_to_socket, heap[o].players[i].k)
        /\ ~Disconnected(heap[o].players[i].v)

\* ---------------------------------------------------------------------- C8
\* a join_room or player_move handler has completed without an error
CompletedOk(t) ==
    /\ tasks[t].pc = "done"
    /\ tasks[t].kind \in {"join", "move"}
    /\ Len(tasks[t].out) > 0
    /\ tasks[t].out[Len(tasks[t].out)].ev # "error"
    /\ tasks[t].room # NoObj

\* C8: whenever a join_room or player_move handler (with the auto-play it
\* triggers) completes on a room that has 2 participants and whose position
\* still has a legal move, the Oracle returning legal moves, the side to move
\* does not belong to a participant whose name is 'raunak' in any case.
C8_AutoPlayed ==
    \A t \in Tasks :
        (CompletedOk(t) /\ Len(heap[tasks[t].room].players) = 2
           /\ Len(LegalMoves(heap[tasks[t].room].board)) > 0) =>
        \A i \in 1..2 :
           LET p == heap[tasks[t].room].players[i].k IN
           ~(IsRaunak(p) /\ IsPlayersTurn(heap[tasks[t].room], p))

\* ---------------------------------------------------------------------- C9
\* the side to move that a canonical position names
TurnOfFen(fen) == IF fen[2] = "w" THEN "white" ELSE "black"

\* C9: when a non-reserved participant's move is accepted in a full room, a
\* move_update with that move token, the mover's name and the position after
\* the move is broadcast to the room, followed by a game_state whose side to
\* move is the opponent's; both are emitted before any auto-play move for the
\* room (so the game_state still reports the position of the move_update).
C9_MoveBroadcast ==
    \A t \in Tasks :
        (tasks[t].kind = "move" /\ ~IsRaunak(tasks[t].username)
           /\ Len(tasks[t].out) >= 1 /\ tasks[t].out[1].ev = "move_update") =>
        LET out == tasks[t].out IN
        /\ out[1].username = tasks[t].username
        /\ out[1].room = tasks[t].room_id
        /\ out[1].move_uci \in {"a", "b"}
        /\ Len(out) >= 2 =>
             /\ out[2].ev = "game_state"
             /\ out[2].room = tasks[t].room_id
             /\ out[2].fen = out[1].fen
             /\ out[2].turn = TurnOfFen(out[1].fen)
        /\ \A i \in 3..Len(out) : IsRaunak(out[i].username) \/ out[i].ev = "game_state"

\* --------------------------------------------------------------------- C10
HasPlayerJoined(out) == \E i \in 1..Len(out) : out[i].ev = "player_joined"

\* C10 as claimed: every successful join_room sends the requester a
\* game_state snapshot, and player_joined naming the joiner is sent to the
\* other participant exactly when that join made the room go from 1 to 2
\* participants, not on a join that leaves the participant set unchanged.
C10_NotifiedOnlyWhenBecameFull ==
    \A t \in Tasks :
        (tasks[t].kind = "join" /\ tasks[t].pc \notin {"idle", "j_state"}
           /\ Len(tasks[t].out) >= 1 /\ tasks[t].out[1].ev # "error") =>
        /\ tasks[t].out[1].ev = "game_state"
        /\ tasks[t].out[1].to = tasks[t].sid
        /\ HasPlayerJoined(tasks[t].out) <=>
              (tasks[t].success = "true" /\ Len(tasks[t].out[1].players) = 2)

\* C10 amended: every successful join_room sends the requester a game_state
\* snapshot (position, side to move, status, participant names, room id); a
\* player_joined naming the joiner is sent to the other participant exactly
\* when the room holds 2 participants at the time the handler resumes after
\* the snapshot, also on a join that leaves the participant set unchanged.
C10_JoinStep(t) ==
    LET o == tasks'[t].room
        e == tasks'[t].out[1]
    IN
    tasks'[t].pc # "done" =>
        /\ Len(tasks'[t].out) = 1
        /\ e.ev = "game_state" /\ e.to = tasks'[t].sid /\ e.rcpt = {tasks'[t].sid}
        /\ e.fen = Fen(heap'[o].board)
        /\ e.turn = (IF heap'[o].board.turn THEN "white" ELSE "black")
        /\ e.status = GetStatus(heap'[o])
        /\ e.players = KeyList(heap'[o].players)
        /\ e.room_id = tasks'[t].room_id
        /\ HasKey(heap'[o].players, tasks'[t].username)
        /\ GetRoom(rooms', e.room_id) = o

C10_NotifyStep(t) ==
    LET room == heap[tasks[t].room]
        new == SubSeq(tasks'[t].out, Len(tasks[t].out) + 1, Len(tasks'[t].out))
    IN
    IF Len(room.players) = 2
    THEN /\ Len(new) = 1
         /\ new[1].ev = "player_joined"
         /\ new[1].username = tasks[t].username
         /\ \E i \in 1..2 : /\ room.players[i].k # tasks[t].username
                            /\ room.players[i].v = new[1].to
    ELSE /\ Len(new) = 0
         /\ tasks'[t].pc = "done"

C10_SnapshotAndNotify ==
    [][\A t \in Tasks :
         /\ Started(t, "join") => C10_JoinStep(t)
         /\ (Resumes(t, {"j_state"}) /\ tasks'[t] # tasks[t]) => C10_NotifyStep(t) ]_vars

\* a name that was already in a full room joined again and the other
\* participant was notified
C10_Witness ==
    \E t \in Tasks :
        /\ tasks[t].kind = "join" /\ tasks[t].success = "unset"
        /\ Len(tasks[t].out) = 2
        /\ tasks[t].out[1].ev = "game_state" /\ Len(tasks[t].out[1].players) = 2
        /\ tasks[t].out[2].ev = "player_joined"
        /\ tasks[t].out[2].username = tasks[t].username

\* --------------------------------------------------------------------- C11
MoveErrors == {"Not authenticated", "Room not found", "Not in this room",
               "Waiting for opponent", "Not your turn", "Move required", "Invalid move",
               "Invalid AI move", "AI could not generate move"}

\* the first step of a player_move handler in slot t: either it accepts a
\* move (and goes on), or it fails in the Oracle, or it rejects the event
C11_RejectStep(t) ==
    LET out == tasks'[t].out
        s == tasks'[t].sid
        rejected == tasks'[t].pc = "done" \/ (Len(out) > 0 /\ out[1].ev = "error")
    IN
    rejected =>
        /\ tasks'[t].pc = "done"
        /\ Len(out) = 1
        /\ out[1].ev = "error" /\ out[1].message \in MoveErrors
        /\ out[1].to = s /\ out[1].rcpt \subseteq {s} /\ out[1].room = 0
        /\ heap' = heap /\ rooms' = rooms
        /\ username_to_socket' = username_to_socket
        /\ socket_to_username' = socket_to_username
        /\ \A u \in Tasks \ {t} : tasks'[u] = tasks[u]

C12_RaunakStep(t) ==
    LET s == tasks'[t].sid
        r == tasks'[t].room_id
        o == GetRoom(rooms, r)
        out == tasks'[t].out
    IN
    /\ \A d \in MoveInputs : MoveStart(t, s, r, d)
    /\ (Len(out) > 0 /\ out[1].ev = "move_update") =>
          /\ IsLegal(heap[o].board, out[1].move_uci)
          /\ heap'[o] = MakeMove(heap[o], out[1].move_uci).room
          /\ out[1].username = tasks'[t].username
          /\ out[1].fen = Fen(Push(heap[o].board, out[1].move_uci))

\* C12: for a player_move event of a participant whose name is 'raunak' in
\* any case, the resulting state and the emitted events do not depend on the
\* move_uci and fen fields of the event: the step taken with one payload is
\* the step taken with every other payload, and the move applied is one the
\* Oracle gives for the position.
C12_PayloadIgnored ==
    [][\A t \in Tasks :
         (Started(t, "move") /\ Lower(tasks'[t].username) = "raunak") => C12_RaunakStep(t)
      ]_vars

\* the Oracle's move was applied for 'Raunak' (capitalised) on a player_move
C12_Witness ==
    \E t \in Tasks :
        /\ tasks[t].kind = "move" /\ tasks[t].username = "Raunak"
        /\ tasks[t].pc = "r_mu"
        /\ tasks[t].out[1].ev = "move_update"

\* --------------------------------------------------------------------- C13
\* the first step of a join_room handler in slot t that got past the
\* username check: the registry gains a Room for the id only when it had
\* none, and the handler works on the Room the registry holds for the id,
\* the same one as every join handler in flight that took it from there
C13_JoinStep(t) ==
    LET r == tasks'[t].room_id
        mine == tasks'[t].room
    IN
    /\ IF HasKey(rooms, r)
       THEN rooms' = rooms
       ELSE /\ rooms' = Append(rooms, [k |-> r, v |-> Lookup(rooms', r)])
            /\ ~Referenced(Lookup(rooms', r), rooms, tasks)
    /\ mine # NoObj =>
          /\ mine = Lookup(rooms', r)
          /\ \A u \in Tasks \ {t} :
                (tasks[u].kind = "join" /\ Running(u) /\ tasks[u].room_id = r
                   /\ GetRoom(rooms, r) = tasks[u].room) => tasks[u].room = mine

\* an entry of the registry is dropped or replaced by a disconnect handler only
C13_RegistryStep ==
    \A r \in RoomIds :
        (HasKey(rooms, r) /\ GetRoom(rooms', r) # GetRoom(rooms, r)) =>
        \E t \in Tasks : /\ tasks'[t].kind = "disconnect"
                         /\ tasks'[t].pc \in {"done", "crashed"}
                         /\ tasks[t].pc \notin {"done", "crashed"}

\* C13: for any interleaving of join_room handlers that name the same room
\* id, unknown before, exactly one Room object is created and stored for the
\* id, and every handler operates on that same Room.
C13_SingleCreation ==
    [][ /\ \A t \in Tasks :
             (Started(t, "join") /\ tasks'[t].username # NoName) => C13_JoinStep(t)
        /\ C13_RegistryStep ]_vars

\* two join handlers for one room id are in flight on one Room object
C13_Witness ==
    \E t, u \in Tasks :
        /\ t # u
        /\ tasks[t].kind = "join" /\ tasks[u].kind = "join"
        /\ Running(t) /\ Running(u)
        /\ tasks[t].room_id = tasks[u].room_id
        /\ tasks[t].username # tasks[u].username
        /\ tasks[t].room # NoObj /\ tasks[t].room = tasks[u].room
        /\ GetRoom(rooms, tasks[t].room_id) = tasks[t].room

\* --------------------------------------------------------------------- C14
\* C14: while a handler is suspended at the broadcast of a move it applied,
\* nothing else changes the position of that room: the room still has the
\* position the move_update reported, and the game_state that follows a
\* move_update in a handler's output reports the position of that move_update.
C14_MoveNotInterleaved ==
    \A t \in Tasks :
        LET out == tasks[t].out IN
        /\ tasks[t].pc \in {"m_mu", "r_mu", "a_mu"} =>
              /\ out[Len(out)].ev = "move_update"
              /\ GetFen(heap[tasks[t].room]) = out[Len(out)].fen
        /\ \A i \in 1..(Len(out) - 1) :
              out[i].ev = "move_update" =>
                 /\ out[i + 1].ev = "game_state"
                 /\ out[i + 1].fen = out[i].fen

\* --------------------------------------------------------------------- C15
\* C15: once the status of a room is anything other than 'ongoing', no later
\* player_move event or auto-play step changes its board, move log or move
\* count, and the room stays in the registry while it has participants.
C15_TerminalFrozen ==
    [][\A r \in RoomIds :
         LET o == GetRoom(rooms, r) IN
         (o # NoObj /\ GetStatus(heap[o]) # "ongoing") =>
            /\ GetRoom(rooms', r) = o => Game(heap'[o]) = Game(heap[o])
            /\ GetRoom(rooms', r) # o =>
                  \E t \in Tasks : /\ tasks'[t].kind = "disconnect"
                                   /\ tasks'[t].room_id = r
                                   /\ tasks[t].pc \notin {"done", "crashed"}
                                   /\ tasks'[t].pc \in {"done", "crashed"} ]_vars

\* --------------------------------------------------------------------- C16
\* C16: in every reachable state of a room, replaying game_log move by move
\* from the initial position, as export_pgn does, accepts every logged move
\* and ends in exactly the live board position of the room.
C16_ReplayReproducesBoard ==
    \A o \in Objs :
        /\ ExportPgn(heap[o]).moves = heap[o].game_log
        /\ ExportPgn(heap[o]).temp_board = heap[o].board
        /\ Fen(ExportPgn(heap[o]).temp_board) = GetFen(heap[o])

\* a registered room with three moves played
C16_Witness ==
    \E o \in Registered :
        /\ Len(heap[o].game_log) >= 3
        /\ heap[o].board.pos = MaxPos

\* --------------------------------------------------------------------- C17
\* C17 (Room on its own): add_player returns false and changes nothing when
\* the room holds 2 participants and the name is not one of them; for a name
\* that is a participant already it returns true and leaves the players
\* mapping (names, order and connection handles) as it was, whether the room
\* holds 1 or 2 participants.
C17_AddPlayerContract ==
    [][ LET players == heap[1].players
            username == tasks'[1].username
            ok == tasks'[1].success = "true"
        IN
        tasks'[1].kind = "add_player" =>
           /\ (Len(players) = 2 /\ ~HasKey(players, username)) =>
                 (~ok /\ heap'[1] = heap[1])
           /\ HasKey(players, username) =>
                 (ok /\ heap'[1].players = players) ]_vars

\* --------------------------------------------------------------------- C18
\* the handler in slot t is at the auto-play check (the call of lines 108,
\* 272 or 161 is next)
AtAutoPlayCheck(t) == tasks[t].pc \in {"j_joined", "m_gs", "a_gs"}

\* in an auto-play invocation, from the check to its last broadcast
InAutoPlay(t) == tasks[t].pc \in {"j_joined", "m_gs", "a_gs", "a_mu"}

\* a participant with the reserved name is to move
ReservedToMove(room) ==
    \E i \in 1..Len(room.players) :
        IsRaunak(room.players[i].k) /\ ((i = 1) = room.board.turn)

C18_CheckStep(t) ==
    LET o == tasks[t].room
        room == heap[o]
        first == RaunakUsername(room)
        due == /\ Len(room.players) = 2
               /\ first # NoName
               /\ (IndexOf(room.players, first) = 1) = room.board.turn
        out == tasks'[t].out
    IN
    /\ tasks'[t].pc = "done" =>
          /\ ~due \/ Len(LegalMoves(room.board)) = 0
          /\ heap'[o] = heap[o] /\ out = tasks[t].out
    /\ tasks'[t].pc = "crashed" =>
          /\ due /\ ~initialized
          /\ heap'[o] = heap[o] /\ out = tasks[t].out
    /\ tasks'[t].pc \notin {"done", "crashed"} =>
          /\ due /\ tasks'[t].pc = "a_mu"
          /\ Len(out) = Len(tasks[t].out) + 1
          /\ out[Len(out)].ev = "move_update" /\ out[Len(out)].username = first
          /\ IsLegal(room.board, out[Len(out)].move_uci)
          /\ heap'[o] = MakeMove(room, out[Len(out)].move_uci).room
          /\ heap'[o].board.turn # room.board.turn

SideOf(room, n) == IF IndexOf(room.players, n) = 1 THEN "white" ELSE "black"

\* C19: the side of a participant never changes while the participant stays
\* in the room: whatever the other players do, a name that remains in a
\* room's participants keeps the colour it had.
C19_SideIsStable ==
    [][\A r \in RoomIds :
         LET o == GetRoom(rooms, r) IN
         (o # NoObj /\ GetRoom(rooms', r) = o) =>
            \A n \in Names :
               (HasKey(heap[o].players, n) /\ HasKey(heap'[o].players, n)) =>
                  SideOf(heap'[o], n) = SideOf(heap[o], n) ]_vars

\* --------------------------------------------------------------------- C20
\* C20: in every reachable state, for every room and every participant name
\* the directory binds, the connection handle the room stores for the name
\* is the connection the directory binds to it.
C20_HandleIsCurrent ==
    \A o \in Registered : \A i \in 1..Len(heap[o].players) :
        HasKey(username_to_socket, heap[o].players[i].k) =>
           Lookup(username_to_socket, heap[o].players[i].k) = heap[o].players[i].v

\* --------------------------------------------------------------------- C21
\* the connection appears in neither directory mapping
NotInDirectory(s) ==
    /\ ~HasKey(socket_to_username, s)
    /\ \A i \in 1..Len(username_to_socket) : username_to_socket[i].v # s

\* C21: the disconnect handler completes without failure for every
\* connection after any sequence of events: it never deletes a directory
\* entry that is absent, and when it has finished neither directory mapping
\* contains the disconnected connection.
C21_DisconnectCleansDirectory ==
    /\ \A t \in Tasks : ~(tasks[t].kind = "disconnect" /\ tasks[t].pc = "crashed")
    /\ \A s \in Sids : Disconnected(s) => NotInDirectory(s)

\* --------------------------------------------------------------------- C22
\* the connection handles a Room stores for its participants
HandlesOf(room) == {room.players[i].v : i \in 1..Len(room.players)}

\* the events the handler in slot t emitted in this step
C22_Emitted(t) == SubSeq(tasks'[t].out, Len(tasks[t].out) + 1, Len(tasks'[t].out))

\* C22: a move_update or game_state broadcast for a room is delivered only to
\* connections the room records, at that time, as the connection of one of
\* its participants: a connection that entered the room's broadcast group
\* and is not, or is no longer, a stored participant handle receives none.
C22_BroadcastToParticipantsOnly ==
    [][NoneEnded =>
         \A t \in Tasks :
            (tasks'[t].pc # "idle" /\ tasks[t].pc # "idle"
               /\ Len(tasks'[t].out) > Len(tasks[t].out)) =>
            \A i \in 1..Len(C22_Emitted(t)) :
               LET e == C22_Emitted(t)[i] IN
               (e.ev \in {"move_update", "game_state"} /\ e.room # 0) =>
                  e.rcpt \subseteq HandlesOf(heap'[tasks'[t].room]) ]_vars

====
